---- MODULE Spec2Model ----
(***************************************************************************)
(* Incremental extraction-and-ingestion engine of the scraping commands   *)
(* (apprenticeship, course, job and career-profile verticals).            *)
(*                                                                         *)
(* A behaviour is one invocation of a management command (one run) against *)
(* a store left behind by an earlier run.  Text values are sequences of    *)
(* one-character strings so that slicing, stripping and lower-casing are   *)
(* computed, not assumed.  The course vertical's orchestration and upsert  *)
(* are line-for-line the apprenticeship ones and share their definitions.  *)
(***************************************************************************)
EXTENDS Integers, Sequences, FiniteSets, TLC

\* ------------------------------------------------------------------ bounds
\* number of faults (HTTP failures, store failures, hook failures) in a run
MaxFaults == 2
\* length of the longest text value a page can carry
MaxStrLen == 501
\* number of listing pages of a synthetic link graph
MaxPages == 3
\* lines of a Summary section
MaxLines == 2
\* nodes of a listing document
MaxNodes == 4

\* ------------------------------------------------------- program constants
TitleMaxLen == 500
WageMaxLen == 255
CategoryMaxLen == 255
JobnameMaxLen == 255

\* ------------------------------------------------------------------- text
EmptyStr == << >>

Rep(c, n) == [i \in 1..n |-> c]

\* s[:n]
Trunc(s, n) == IF Len(s) <= n THEN s ELSE SubSeq(s, 1, n)

IsSpace(c) == c \in {" ", "\t", "\n"}

RECURSIVE LStrip(_)
LStrip(s) == IF s = EmptyStr THEN s
             ELSE IF IsSpace(Head(s)) THEN LStrip(Tail(s)) ELSE s

RECURSIVE RStrip(_)
RStrip(s) == IF s = EmptyStr THEN s
             ELSE IF IsSpace(s[Len(s)]) THEN RStrip(SubSeq(s, 1, Len(s) - 1)) ELSE s

\* str.strip()
Strip(s) == RStrip(LStrip(s))

UpperToLower == [c \in {"A", "B", "C", "N", "T", "W"} |->
                   CASE c = "A" -> "a" [] c = "B" -> "b" [] c = "C" -> "c"
                     [] c = "N" -> "n" [] c = "T" -> "t" [] c = "W" -> "w"]

\* str.lower()
Lower(s) == [i \in 1..Len(s) |-> IF s[i] \in DOMAIN UpperToLower THEN UpperToLower[s[i]] ELSE s[i]]

\* (the em dash entry of the source set lies outside the characters the model's texts use)
EmptyishVocabulary ==
  { <<"-">>,
    <<"n", "/", "a">>,
    <<"n", "a">>,
    <<"n","o","t"," ","a","v","a","i","l","a","b","l","e">>,
    <<"n","o","t"," ","a","p","p","l","i","c","a","b","l","e">>,
    <<"t", "b", "c">>,
    <<"t","o"," ","b","e"," ","c","o","n","f","i","r","m","e","d">>,
    <<"c","o","m","p","e","t","i","t","i","v","e">> }

\* an emptiness test that is content with a value that begins with a placeholder
IsEmptyishMut(val) ==
  LET v == Lower(Strip(val))
  IN  IF v = EmptyStr THEN TRUE
      ELSE \E e \in EmptyishVocabulary : Len(v) >= Len(e) /\ SubSeq(v, 1, Len(e)) = e

\* _is_emptyish
IsEmptyish(val) ==
  LET v == Lower(Strip(val))
  IN  IF v = EmptyStr THEN TRUE ELSE v \in EmptyishVocabulary

\* the set of the course command (its second entry, too, lies outside the model's characters)
CourseVocabulary ==
  { <<"-">>,
    <<"n", "/", "a">>,
    <<"n", "a">>,
    <<"n","o","t"," ","a","v","a","i","l","a","b","l","e">>,
    <<"n","o","t"," ","a","p","p","l","i","c","a","b","l","e">>,
    <<"t", "b", "c">>,
    <<"t","o"," ","b","e"," ","c","o","n","f","i","r","m","e","d">>,
    <<"c","o","n","t","a","c","t"," ","c","o","u","r","s","e"," ","p","r","o","v","i","d","e","r">>,
    <<"c","o","n","t","a","c","t"," ","p","r","o","v","i","d","e","r">> }

\* _is_emptyish of the course command
CourseIsEmptyish(val) ==
  LET v == Lower(Strip(val))
  IN  IF v = EmptyStr THEN TRUE ELSE v \in CourseVocabulary

\* ------------------------------------------------------------ page lines
RECURSIVE Squeeze(_)
\* re.sub(r"\s+", " ", s)
Squeeze(s) ==
  IF s = EmptyStr THEN s
  ELSE IF IsSpace(Head(s))
       THEN <<" ">> \o Squeeze(LStrip(s))
       ELSE <<Head(s)>> \o Squeeze(Tail(s))

\* clean
Clean(s) == Squeeze(Strip(s))

RECURSIVE RStripColon(_)
\* str.rstrip(":")
RStripColon(s) ==
  IF s = EmptyStr THEN s
  ELSE IF s[Len(s)] = ":" THEN RStripColon(SubSeq(s, 1, Len(s) - 1)) ELSE s

\* str.startswith
StartsWith(s, prefix) == Len(s) >= Len(prefix) /\ SubSeq(s, 1, Len(prefix)) = prefix

\* s[n:]
From(s, n) == IF n >= Len(s) THEN EmptyStr ELSE SubSeq(s, n + 1, Len(s))

\* _find_after_label: the first line that is the label, or starts with the label and a space
FindAfterLabel(lines, label) ==
  LET base == Lower(RStripColon(Strip(label)))
      hit(i) == LET low == Lower(Clean(lines[i]))
                IN  low = base \/ StartsWith(low, base \o <<" ">>)
      hits == {i \in 1..Len(lines) : hit(i)}
  IN  IF hits = {} THEN EmptyStr
      ELSE LET i == CHOOSE j \in hits : \A k \in hits : j <= k
               t == Clean(lines[i])
           IN  IF Lower(t) = base
               THEN (IF i + 1 <= Len(lines) THEN Clean(lines[i + 1]) ELSE EmptyStr)
               ELSE Clean(From(t, Len(label)))

\* ----------------------------------------------------------- result cards
\* range(15) in _find_result_card
ClimbLimit == 15

\* A listing document: node 1 is the main element, parent[n] < n is n's parent, siblings stand in
\* index order. Kinds: "a1"/"a2" are links to the items r1/r2, "text" is a span holding the
\* words of CardText. The ancestors of main hold no further link or text.
Anchors == [a1 |-> "r1", a2 |-> "r2"]

CardText == {"Start date", "Wage", "Cost"}

TagOf(kind) == CASE kind \in {"a1", "a2"} -> "a"
                 [] kind = "text" -> "span"
                 [] OTHER -> kind

RECURSIVE AncestorsOf(_, _)
AncestorsOf(doc, n) ==
  IF doc.parent[n] = 0 THEN {} ELSE {doc.parent[n]} \cup AncestorsOf(doc, doc.parent[n])

\* what node.select(...) ranges over: the nodes below node
Below(doc, node) == {m \in 1..Len(doc.parent) : node \in AncestorsOf(doc, m)}

RECURSIVE Flatten(_, _, _)
RECURSIVE DocumentOrder(_, _)
Flatten(doc, kids, from) ==
  IF \A k \in kids : k < from THEN << >>
  ELSE LET k == CHOOSE c \in kids : c >= from /\ \A d \in kids : d >= from => c <= d
       IN  DocumentOrder(doc, k) \o Flatten(doc, kids, k + 1)

DocumentOrder(doc, n) ==
  <<n>> \o Flatten(doc, {m \in 1..Len(doc.parent) : doc.parent[m] = n}, 1)

\* _vac_refs_in_node, _course_ids_in_node, _job_ids_in_node
IdsInNode(doc, node) ==
  {Anchors[doc.kind[m]] : m \in {d \in Below(doc, node) : doc.kind[d] \in DOMAIN Anchors}}

\* the labels whose occurrences in the node's text are counted
CardLabels(v) ==
  CASE v = "apprenticeship" -> {"Start date", "Training course", "Wage", "Closes", "Posted"}
    [] v = "course" -> {"Cost", "Duration", "Learning method", "Start date"}
    [] OTHER -> {}

Hits(v, doc, node) ==
  IF \E m \in Below(doc, node) \cup {node} : doc.kind[m] = "text"
  THEN Cardinality(CardText \cap CardLabels(v)) ELSE 0

\* a test that is content with a node that holds the wanted identifier among others
CardMatchesMut(ids, ref) == ref \in ids

\* ids and ids == {ref}
CardMatches(ids, ref) == ids # {} /\ ids = {ref}

\* what a node with the right identifiers must also satisfy
LooksLikeCard(v, doc, node) ==
  CASE v = "apprenticeship" ->
         Hits(v, doc, node) >= 2 \/ TagOf(doc.kind[node]) \in {"article", "li", "section", "div"}
    [] v = "course" ->
         Hits(v, doc, node) >= 1 \/ TagOf(doc.kind[node]) \in {"article", "li", "section"}
    [] OTHER -> TRUE

RECURSIVE ClimbMut(_, _, _, _, _)
\* a search that climbs until the root is passed
ClimbMut(v, doc, node, ref, left) ==
  IF node = 0 THEN 0
  ELSE IF CardMatches(IdsInNode(doc, node), ref) /\ LooksLikeCard(v, doc, node) THEN node
  ELSE ClimbMut(v, doc, doc.parent[node], ref, left)

RECURSIVE Climb(_, _, _, _, _)
\* the loop of _find_result_card; 0 stands for None
Climb(v, doc, node, ref, left) ==
  IF left = 0 \/ node = 0 THEN 0
  ELSE IF CardMatches(IdsInNode(doc, node), ref) /\ LooksLikeCard(v, doc, node) THEN node
  ELSE Climb(v, doc, doc.parent[node], ref, left - 1)

FindResultCard(v, doc, link, ref) == Climb(v, doc, link, ref, ClimbLimit)

\* the links the extraction loop goes on with
IsItemLink(v, doc, n) ==
  /\ doc.kind[n] \in DOMAIN Anchors
  /\ (v = "job") => \E h \in AncestorsOf(doc, n) : TagOf(doc.kind[h]) \in {"h2", "h3", "h4"}

RECURSIVE Dedup(_, _)
\* the closing loop that keeps the first item of each identifier
Dedup(items, seen) ==
  IF items = << >> THEN << >>
  ELSE IF Head(items).ref \in seen THEN Dedup(Tail(items), seen)
  ELSE <<Head(items)>> \o Dedup(Tail(items), seen \cup {Head(items).ref})

RECURSIVE CardsOf(_, _, _)
CardsOf(v, doc, nodes) ==
  IF nodes = << >> THEN << >>
  ELSE LET a == Head(nodes)
           card == FindResultCard(v, doc, a, Anchors[doc.kind[a]])
       IN  (IF IsItemLink(v, doc, a) /\ card # 0
            THEN <<[ref |-> Anchors[doc.kind[a]], link |-> a, card |-> card]>> ELSE << >>)
           \o CardsOf(v, doc, Tail(nodes))

\* _extract_vacancies_from_list, _extract_courses_from_list, _extract_jobs_from_list:
\* each item with the link it came from and the card its fields were read from
ExtractFromList(v, doc) == Dedup(CardsOf(v, doc, DocumentOrder(doc, 1)), {})

\* --------------------------------------------------------------- sections
\* _collect_until_next_h2 on the children of one parent, start being the place of the heading.
\* Kinds: "h2", "p" (any other Tag), "str" (a NavigableString). tmp.append(sib) takes sib out
\* of its parent and clears its next_sibling; whether the walk over start.next_siblings then
\* goes on depends on the library release: one that reads the successor before it yields goes
\* on (prefetch), one that reads it afterwards ends at the first node moved.
CollectUntilNextH2(sibs, start, prefetch) ==
  LET after == (start + 1)..Len(sibs)
      stops == {i \in after : sibs[i].kind = "h2"}
      tags == {i \in after : sibs[i].kind = "p" /\ \A j \in stops : i < j}
      moved == IF prefetch THEN tags ELSE {i \in tags : \A j \in tags : i <= j}
      taken(e) == e.id \in {sibs[i].id : i \in moved}
      left(e) == ~taken(e)
  IN  [scope |-> SelectSeq(sibs, taken), rest |-> SelectSeq(sibs, left)]

\* ------------------------------------------------------------ stored rows
\* NULL of last_checked_at / last_scrape_run_id
Null == -1

\* Business columns carried by the model: "title" (title / jobname) and
\* "wage" (wage / salary); every other scraped column is handled by the
\* same dictionary loop as these two.
BusinessFields == {"title", "wage", "category", "subcategory"}

\* update_fields that forget the run id
MetaFieldsMut == {"last_checked_at", "last_scrape_status", "last_scrape_message"}

MetaFields == {"last_checked_at", "last_scrape_status", "last_scrape_message", "last_scrape_run_id"}

\* column defaults of the vacancy / job tables
DefaultRow ==
  [ title |-> EmptyStr, wage |-> EmptyStr, category |-> EmptyStr, subcategory |-> EmptyStr,
    image_url |-> EmptyStr,
    last_checked_at |-> Null, last_scrape_status |-> "",
    last_scrape_message |-> << >>, last_scrape_run_id |-> Null ]

\* an insert that leaves the category columns at their defaults
CreateRowMut(vals) ==
  [f \in DOMAIN DefaultRow |-> IF f \in DOMAIN vals \ {"category", "subcategory"} THEN vals[f] ELSE DefaultRow[f]]

\* objects.get_or_create(key, defaults=vals): the inserted row
CreateRow(vals) == [f \in DOMAIN DefaultRow |-> IF f \in DOMAIN vals THEN vals[f] ELSE DefaultRow[f]]

\* a save that writes the bookkeeping columns alone
SaveFieldsMut(row, obj, fields) == [f \in DOMAIN row |-> IF f \in fields \cap MetaFields THEN obj[f] ELSE row[f]]

\* an insert that never looks for the row first
GetOrCreateFindsMut(st, key) == FALSE

\* objects.get_or_create(key, ...): is there a row with the key
GetOrCreateFinds(st, key) == key \in DOMAIN st

\* obj.save(update_fields=fields): only the named columns are written
SaveFields(row, obj, fields) == [f \in DOMAIN row |-> IF f \in fields THEN obj[f] ELSE row[f]]

\* setattr over a dictionary of values
SetAttrs(obj, vals) == [f \in DOMAIN obj |-> IF f \in DOMAIN vals THEN vals[f] ELSE obj[f]]

Range(seq) == {seq[i] : i \in 1..Len(seq)}

\* ----------------------------------------- apprenticeship / course upsert
\* iteration order of new_vals (dict insertion order)
ApprNewValsOrder == <<"title", "wage", "last_checked_at", "last_scrape_run_id", "category", "subcategory">>

\* new_vals of Command._upsert_smart
ApprNewVals(data, category, subcategory, run_id, now) ==
  LET keys == {"title", "wage", "last_checked_at", "last_scrape_run_id"}
                \cup (IF category # EmptyStr THEN {"category"} ELSE {})
                \cup (IF subcategory # EmptyStr THEN {"subcategory"} ELSE {})
  IN  [f \in keys |->
         CASE f = "title" -> Trunc(data.title, TitleMaxLen)
           [] f = "wage" -> Trunc(data.wage, WageMaxLen)
           [] f = "last_checked_at" -> now
           [] f = "last_scrape_run_id" -> run_id
           [] f = "category" -> Trunc(category, CategoryMaxLen)
           [] f = "subcategory" -> Trunc(subcategory, CategoryMaxLen)]

\* a diff loop that compares the run id as well
UpsertLoopSkipMut == {"last_checked_at"}

\* the keys the diff loop passes over with `continue`
UpsertLoopSkip == {"last_checked_at", "last_scrape_run_id"}

\* changed_fields appended by the diff loop, in order
DiffLoop(obj, new_vals, order, skip) ==
  SelectSeq(order, LAMBDA f : f \in DOMAIN new_vals /\ f \notin skip /\ obj[f] # new_vals[f])

\* Command._upsert_smart (transaction.atomic): result of a call that commits
ApprUpsertSmart(st, key, data, category, subcategory, run_id, now) ==
  LET new_vals == ApprNewVals(data, category, subcategory, run_id, now)
  IN  IF ~GetOrCreateFinds(st, key)
      THEN LET obj == [CreateRow(new_vals) EXCEPT !.last_scrape_status = "created",
                                                  !.last_scrape_message = << >>]
           IN  [status |-> "created", changed |-> << >>, store |-> st @@ (key :> obj)]
      ELSE LET row == st[key]
               fillCat == category # EmptyStr /\ Strip(row.category) = EmptyStr
               fillSub == subcategory # EmptyStr /\ Strip(row.subcategory) = EmptyStr
               obj1 == [row EXCEPT !.category = IF fillCat THEN Trunc(category, CategoryMaxLen) ELSE @,
                                   !.subcategory = IF fillSub THEN Trunc(subcategory, CategoryMaxLen) ELSE @]
               changed_fields == (IF fillCat THEN <<"category">> ELSE << >>)
                                   \o (IF fillSub THEN <<"subcategory">> ELSE << >>)
                                   \o DiffLoop(obj1, new_vals, ApprNewValsOrder, UpsertLoopSkip)
               obj2 == [SetAttrs(obj1, [f \in DOMAIN new_vals \ UpsertLoopSkip |-> new_vals[f]])
                          EXCEPT !.last_checked_at = now, !.last_scrape_run_id = run_id]
           IN  IF changed_fields = << >>
               THEN LET obj3 == [obj2 EXCEPT !.last_scrape_status = "skipped",
                                             !.last_scrape_message = << >>]
                    IN  [status |-> "skipped", changed |-> << >>,
                         store |-> [st EXCEPT ![key] = SaveFields(row, obj3, MetaFields)]]
               ELSE LET obj3 == [obj2 EXCEPT !.last_scrape_status = "updated",
                                             !.last_scrape_message = changed_fields]
                    IN  [status |-> "updated", changed |-> changed_fields,
                         store |-> [st EXCEPT ![key] =
                                      SaveFields(row, obj3, Range(changed_fields) \cup MetaFields)]]

\* -------------------------------------------------- career-profile upsert
FetchNewValsOrder == <<"title", "wage", "last_checked_at", "last_scrape_run_id">>

\* new_vals of Command._upsert_smart ("title" is jobname, "wage" is salary)
FetchNewVals(details, run_id, now) ==
  [f \in {"title", "wage", "last_checked_at", "last_scrape_run_id"} |->
     CASE f = "title" -> Trunc(details.title, JobnameMaxLen)
       [] f = "wage" -> details.wage
       [] f = "last_checked_at" -> now
       [] f = "last_scrape_run_id" -> run_id]

\* a skipped path that saves the timestamp and the run id alone
FetchUpsertSmartMut(st, key, details, run_id, now) ==
  LET new_vals == FetchNewVals(details, run_id, now)
  IN  IF ~GetOrCreateFinds(st, key)
      THEN LET obj == [CreateRow(new_vals) EXCEPT !.last_scrape_status = "created",
                                                  !.last_scrape_message = << >>]
           IN  [status |-> "created", changed |-> << >>, store |-> st @@ (key :> obj)]
      ELSE LET row == st[key]
               changed_fields == DiffLoop(row, new_vals, FetchNewValsOrder, UpsertLoopSkip)
               obj2 == [SetAttrs(row, [f \in DOMAIN new_vals \ UpsertLoopSkip |-> new_vals[f]])
                          EXCEPT !.last_checked_at = now, !.last_scrape_run_id = run_id]
           IN  IF changed_fields = << >>
               THEN LET obj3 == [obj2 EXCEPT !.last_scrape_status = "skipped",
                                             !.last_scrape_message = << >>]
                    IN  [status |-> "skipped", changed |-> << >>,
                         store |-> [st EXCEPT ![key] = SaveFields(row, obj3, UpsertLoopSkip)]]
               ELSE LET obj3 == [obj2 EXCEPT !.last_scrape_status = "updated",
                                             !.last_scrape_message = changed_fields]
                    IN  [status |-> "updated", changed |-> changed_fields,
                         store |-> [st EXCEPT ![key] =
                                      SaveFields(row, obj3, Range(changed_fields) \cup MetaFields)]]

\* Command._upsert_smart (transaction.atomic): result of a call that commits
FetchUpsertSmart(st, key, details, run_id, now) ==
  LET new_vals == FetchNewVals(details, run_id, now)
  IN  IF ~GetOrCreateFinds(st, key)
      THEN LET obj == [CreateRow(new_vals) EXCEPT !.last_scrape_status = "created",
                                                  !.last_scrape_message = << >>]
           IN  [status |-> "created", changed |-> << >>, store |-> st @@ (key :> obj)]
      ELSE LET row == st[key]
               changed_fields == DiffLoop(row, new_vals, FetchNewValsOrder, UpsertLoopSkip)
               obj2 == [SetAttrs(row, [f \in DOMAIN new_vals \ UpsertLoopSkip |-> new_vals[f]])
                          EXCEPT !.last_checked_at = now, !.last_scrape_run_id = run_id]
           IN  IF changed_fields = << >>
               THEN LET obj3 == [obj2 EXCEPT !.last_scrape_status = "skipped",
                                             !.last_scrape_message = << >>]
                    IN  [status |-> "skipped", changed |-> << >>,
                         store |-> [st EXCEPT ![key] = SaveFields(row, obj3, MetaFields)]]
               ELSE LET obj3 == [obj2 EXCEPT !.last_scrape_status = "updated",
                                             !.last_scrape_message = changed_fields]
                    IN  [status |-> "updated", changed |-> changed_fields,
                         store |-> [st EXCEPT ![key] =
                                      SaveFields(row, obj3, Range(changed_fields) \cup MetaFields)]]

\* --------------------------------------------------- per-item processing
\* Outcomes of the three calls that can raise while one item is processed:
\*   det  = [ok, data]   the detail-page fetch and extraction
\*   fault               where the store raises: "none", "create" (get_or_create), "save" (obj.save)
\*   enr  = [ok, url]    the image generation and upload
\* The result names the item's status, the store afterwards, the audit
\* entries appended (in order), the counter increments and whether the
\* enrichment hook was invoked; `upserted` is the row as the upsert left it,
\* before the image step.

Entry(status, message) == [status |-> status, message |-> message]

Counts(c, u, s, e) == [created |-> c, updated |-> u, skipped |-> s, error |-> e]

StatusCounts(status) ==
  CASE status = "created" -> Counts(1, 0, 0, 0)
    [] status = "updated" -> Counts(0, 1, 0, 0)
    [] status = "skipped" -> Counts(0, 0, 1, 0)
    [] OTHER -> Counts(0, 0, 0, 1)

AddCounts(a, b) == Counts(a.created + b.created, a.updated + b.updated,
                          a.skipped + b.skipped, a.error + b.error)

NoHook == [called |-> FALSE, existing |-> EmptyStr]

\* the values handed to the upsert: the merged record and the query's category / subcategory
Input(data, category, subcategory) == [data |-> data, category |-> category, subcategory |-> subcategory]

NoInput == Input([title |-> EmptyStr, wage |-> EmptyStr], EmptyStr, EmptyStr)

\* x or y
Or(x, y) == IF x # EmptyStr THEN x ELSE y

\* the listing-as-fallback merge of Command._process_one
ApprMergeField(detail, listed) == IF IsEmptyish(detail) /\ listed # EmptyStr THEN listed ELSE detail

ApprMerge(details, listed) ==
  [title |-> ApprMergeField(details.title, listed.title),
   wage |-> ApprMergeField(details.wage, listed.wage)]

\* an image failure that turns the terminal row into an error row
ApprAuditEntriesMut(status, changed, imageFailed) ==
  (IF imageFailed THEN <<Entry("image_error", <<"EnrichmentError">>)>> ELSE << >>)
    \o <<Entry(IF imageFailed THEN "error" ELSE status, changed)>>

\* the audit rows Command._process_one writes after a committed upsert
ApprAuditEntries(status, changed, imageFailed) ==
  (IF imageFailed THEN <<Entry("image_error", <<"EnrichmentError">>)>> ELSE << >>)
    \o <<Entry(status, changed)>>

\* a guard that does not look at the stored image
ApprWantsImageMut(no_images, refresh_images, existing_url, title_for_img) ==
  (~no_images) /\ title_for_img # EmptyStr

\* the guard in front of the image generation call
ApprWantsImage(no_images, refresh_images, existing_url, title_for_img) ==
  (~no_images) /\ (refresh_images \/ existing_url = EmptyStr) /\ title_for_img # EmptyStr

\* Command._process_one
ApprProcessOne(st, listed, key, category, subcategory, run_id, now, no_images, refresh_images, det, fault, enr) ==
  IF ~det.ok
  THEN [status |-> "error", store |-> st, entries |-> <<Entry("error", <<"FetchError">>)>>,
        counts |-> StatusCounts("error"), hook |-> NoHook, upsert |-> "none", changed |-> << >>, input |-> NoInput,
        upserted |-> << >>]
  ELSE IF fault # "none"
  THEN [status |-> "error", store |-> st, entries |-> <<Entry("error", <<"PersistenceError">>)>>,
        counts |-> StatusCounts("error"), hook |-> NoHook, upsert |-> "none", changed |-> << >>, input |-> NoInput,
        upserted |-> << >>]
  ELSE
    LET up == ApprUpsertSmart(st, key, ApprMerge(det.data, listed), category, subcategory, run_id, now)
        obj == up.store[key]
        existing_url == Strip(obj.image_url)
        title_for_img == Strip(Or(obj.title, listed.title))
        called == ApprWantsImage(no_images, refresh_images, existing_url, title_for_img)
        cloud_url == Strip(enr.url)
        st2 == IF called /\ enr.ok /\ cloud_url # EmptyStr /\ cloud_url # existing_url
               THEN [up.store EXCEPT ![key].image_url = cloud_url]
               ELSE up.store
    IN  [status |-> up.status, store |-> st2,
         entries |-> ApprAuditEntries(up.status, up.changed, called /\ ~enr.ok),
         counts |-> StatusCounts(up.status),
         hook |-> [called |-> called, existing |-> existing_url],
         upsert |-> up.status, changed |-> up.changed,
         input |-> Input(ApprMerge(det.data, listed), category, subcategory),
         upserted |-> <<obj>>]

\* _maybe_generate_image: is the generation call reached
FetchWantsImage(no_images, refresh_images, existing, jobname) ==
  (~no_images) /\ ~(existing # EmptyStr /\ ~refresh_images) /\ jobname # EmptyStr

\* body of the per-job try block of Command.handle; details is the cached
\* or freshly scraped profile
FetchProcessJob(st, key, run_id, now, no_images, refresh_images, det, fault, enr) ==
  IF ~det.ok
  THEN [status |-> "error", store |-> st, entries |-> <<Entry("error", <<"FetchError">>)>>,
        counts |-> Counts(0, 0, 0, 1), hook |-> NoHook, upsert |-> "none", changed |-> << >>, input |-> NoInput,
        upserted |-> << >>]
  ELSE IF fault # "none"
  THEN [status |-> "error", store |-> st, entries |-> <<Entry("error", <<"PersistenceError">>)>>,
        counts |-> Counts(0, 0, 0, 1), hook |-> NoHook, upsert |-> "none", changed |-> << >>, input |-> NoInput,
        upserted |-> << >>]
  ELSE
    LET up == FetchUpsertSmart(st, key, det.data, run_id, now)
        obj == up.store[key]
        existing == Strip(obj.image_url)
        called == FetchWantsImage(no_images, refresh_images, existing, Strip(obj.title))
        cloud_url == Strip(enr.url)
        st2 == IF called /\ enr.ok /\ cloud_url # EmptyStr /\ cloud_url # existing
               THEN [up.store EXCEPT ![key].image_url = cloud_url]
               ELSE up.store
        imageFailed == called /\ ~enr.ok
    IN  [status |-> up.status, store |-> st2,
         entries |-> (IF imageFailed THEN <<Entry("image_error", <<"EnrichmentError">>)>> ELSE << >>)
                       \o <<Entry(up.status, << >>)>>,
         counts |-> AddCounts(IF imageFailed THEN Counts(0, 0, 0, 1) ELSE Counts(0, 0, 0, 0),
                              IF up.status = "created" THEN Counts(1, 0, 0, 0)
                              ELSE IF up.status = "updated" THEN Counts(0, 1, 0, 0)
                              ELSE Counts(0, 0, 1, 0)),
         hook |-> [called |-> called, existing |-> existing],
         upsert |-> up.status, changed |-> up.changed,
         input |-> Input(det.data, EmptyStr, EmptyStr),
         upserted |-> <<obj>>]

\* fill_if_empty
JobFillIfEmpty(detail, listed) == IF detail = EmptyStr THEN listed ELSE detail

\* safe_vals of Command.handle ("wage" is salary)
JobSafeVals(details, listed, category, subcategory) ==
  [title |-> JobFillIfEmpty(details.title, listed.title),
   wage |-> JobFillIfEmpty(details.wage, listed.wage),
   category |-> category, subcategory |-> subcategory]

\* the image step of the job command runs whenever images are enabled
JobWantsImage(no_images, title_for_img) == (~no_images) /\ title_for_img # EmptyStr

\* body of the per-job try block of Command.handle (no transaction)
JobProcessJob(st, listed, key, category, subcategory, run_id, now, no_images, det, fault, enr) ==
  IF ~det.ok
  THEN [status |-> "error", store |-> st, entries |-> <<Entry("error", <<"FetchError">>)>>,
        counts |-> Counts(0, 0, 0, 1), hook |-> NoHook, upsert |-> "none", changed |-> << >>, input |-> NoInput,
        upserted |-> << >>]
  ELSE IF fault = "create"
  THEN [status |-> "error", store |-> st, entries |-> <<Entry("error", <<"PersistenceError">>)>>,
        counts |-> Counts(0, 0, 0, 1), hook |-> NoHook, upsert |-> "none", changed |-> << >>, input |-> NoInput,
        upserted |-> << >>]
  ELSE
    LET safe_vals == JobSafeVals(det.data, listed, category, subcategory)
        was_created == ~GetOrCreateFinds(st, key)
        \* get_or_create commits on its own
        st1 == IF was_created THEN st @@ (key :> CreateRow(safe_vals)) ELSE st
        row == st1[key]
        fillCat == (~was_created) /\ category # EmptyStr /\ Strip(row.category) = EmptyStr
        fillSub == (~was_created) /\ subcategory # EmptyStr /\ Strip(row.subcategory) = EmptyStr
        obj1 == [row EXCEPT !.category = IF fillCat THEN category ELSE @,
                            !.subcategory = IF fillSub THEN subcategory ELSE @]
        diff == IF was_created THEN << >>
                ELSE DiffLoop(obj1, safe_vals, <<"title", "wage", "category", "subcategory">>,
                              {"category", "subcategory"})
        obj2 == IF was_created THEN obj1
                ELSE SetAttrs(obj1, [f \in {"title", "wage"} |-> safe_vals[f]])
        changed0 == (IF fillCat THEN <<"category">> ELSE << >>)
                      \o (IF fillSub THEN <<"subcategory">> ELSE << >>) \o diff
        title_for_img == Strip(Or(safe_vals.title, Or(obj2.title, listed.title)))
        called == JobWantsImage(no_images, title_for_img)
        imageFailed == called /\ ~enr.ok
        newImage == called /\ enr.ok /\ enr.url # EmptyStr /\ obj2.image_url # enr.url
        obj3 == IF newImage THEN [obj2 EXCEPT !.image_url = enr.url] ELSE obj2
        changed_fields == changed0 \o (IF newImage THEN <<"image_url">> ELSE << >>)
        status == IF was_created THEN "created"
                  ELSE IF changed_fields # << >> THEN "updated" ELSE "skipped"
        obj4 == [obj3 EXCEPT !.last_checked_at = now, !.last_scrape_run_id = run_id,
                             !.last_scrape_status = status, !.last_scrape_message = << >>]
        saved == IF was_created THEN obj4
                 ELSE SaveFields(row, obj4, Range(changed_fields) \cup MetaFields)
        imageEntries == IF imageFailed THEN <<Entry("image_error", <<"EnrichmentError">>)>> ELSE << >>
        hook == [called |-> called, existing |-> obj2.image_url]
    IN  IF fault = "save"
        THEN [status |-> "error", store |-> st1,
              entries |-> imageEntries \o <<Entry("error", <<"PersistenceError">>)>>,
              counts |-> AddCounts(StatusCounts(status), Counts(0, 0, 0, 1)),
              hook |-> hook, upsert |-> "none", changed |-> << >>, input |-> NoInput,
        upserted |-> << >>]
        ELSE [status |-> status, store |-> [st1 EXCEPT ![key] = saved],
              entries |-> imageEntries \o <<Entry(status, << >>)>>,
              counts |-> StatusCounts(status),
              hook |-> hook, upsert |-> status, changed |-> changed_fields,
              input |-> Input([title |-> safe_vals.title, wage |-> safe_vals.wage], category, subcategory),
              upserted |-> <<saved>>]

\* ---------------------------------------------------- the scraped website
Verticals == {"apprenticeship", "job", "fetch"}

NoUrl == ""

TitleA == <<"A">>
TitleB == <<"B">>
Dash == <<"-">>
LongTitle == Rep("x", MaxStrLen)
WageW == <<"W">>
CatA == <<"C", "a">>
CatB == <<"C", "b">>
SubA == <<"s", "a">>
SubB == <<"s", "b">>
SectorS == <<"S">>
UrlU == <<"u">>
UrlV == <<"v">>

Listed(ref, title, wage) == [ref |-> ref, title |-> title, wage |-> wage]

Data(title, wage) == [title |-> title, wage |-> wage]

Query(career_type, category, subcategory, start) ==
  [career_type |-> career_type, category |-> category, subcategory |-> subcategory, start |-> start]

Page(items, next) == [items |-> items, next |-> next]

\* One query over two listing pages holding five items.
SiteFive ==
  [ plan |-> <<Query("category", CatA, SubA, "p1")>>,
    sectors |-> << >>,
    pages |-> [u \in {"p1", "p2"} |->
                 IF u = "p1"
                 THEN Page(<<Listed("r1", TitleA, EmptyStr), Listed("r2", TitleB, WageW),
                             Listed("r3", TitleA, EmptyStr)>>, "p2")
                 ELSE Page(<<Listed("r4", TitleA, EmptyStr), Listed("r5", TitleA, EmptyStr)>>, NoUrl)],
    detail |-> [r \in {"r1", "r2", "r3", "r4", "r5"} |->
                  CASE r = "r1" -> Data(TitleA, WageW)
                    [] r = "r2" -> Data(Dash, EmptyStr)
                    [] r = "r3" -> Data(TitleA, Dash)
                    [] OTHER -> Data(TitleB, EmptyStr)] ]

\* Two queries; r1 is listed under both, and the second listing links to itself.
SiteTwoQueries ==
  [ plan |-> <<Query("category", CatB, SubB, "p1"), Query("category", CatA, SubA, "p2")>>,
    sectors |-> <<Query("sector", SectorS, EmptyStr, "p1")>>,
    pages |-> [u \in {"p1", "p2"} |->
                 IF u = "p1"
                 THEN Page(<<Listed("r1", TitleA, EmptyStr)>>, NoUrl)
                 ELSE Page(<<Listed("r1", TitleA, EmptyStr), Listed("r2", TitleB, WageW)>>, "p2")],
    detail |-> [r \in {"r1", "r2"} |->
                  IF r = "r1" THEN Data(TitleA, WageW) ELSE Data(EmptyStr, Dash)] ]

\* One query, one page; the detail page of r1 has changed since the earlier
\* run and r2 carries a title longer than its column.
SiteChanged ==
  [ plan |-> <<Query("category", CatA, SubA, "p1")>>,
    sectors |-> << >>,
    pages |-> [u \in {"p1"} |-> Page(<<Listed("r1", TitleA, EmptyStr), Listed("r2", EmptyStr, EmptyStr)>>, NoUrl)],
    detail |-> [r \in {"r1", "r2"} |->
                  IF r = "r1" THEN Data(TitleB, WageW) ELSE Data(LongTitle, EmptyStr)] ]

\* One query over a chain of three listing pages; r1 is listed on two of them.
SiteChain ==
  [ plan |-> <<Query("category", CatA, SubA, "p1")>>,
    sectors |-> << >>,
    pages |-> [u \in {"p1", "p2", "p3"} |->
                 CASE u = "p1" -> Page(<<Listed("r1", TitleA, EmptyStr)>>, "p2")
                   [] u = "p2" -> Page(<<Listed("r1", TitleA, EmptyStr)>>, "p3")
                   [] OTHER -> Page(<<Listed("r2", TitleB, WageW)>>, NoUrl)],
    detail |-> [r \in {"r1", "r2"} |->
                  IF r = "r1" THEN Data(TitleA, WageW) ELSE Data(TitleB, EmptyStr)] ]

\* A listing whose pages are linked as `next` says (page -> next URL or
\* NoUrl); every page lists one item, named after the page.
SiteSynthetic(next) ==
  [ plan |-> <<Query("category", CatA, SubA, "p1")>>,
    sectors |-> << >>,
    pages |-> [u \in DOMAIN next |-> Page(<<Listed(u, TitleA, EmptyStr)>>, next[u])],
    detail |-> [r \in DOMAIN next |-> Data(TitleA, WageW)] ]

\* the website snapshots a run can meet, by name
SiteNames == {"five", "two-queries", "changed", "chain"}

SiteOf(name) == CASE name = "five" -> SiteFive
                  [] name = "two-queries" -> SiteTwoQueries
                  [] name = "chain" -> SiteChain
                  [] OTHER -> SiteChanged

\* the store key of an item: vacancy_ref / job_id, or (career_type, sub_type, job_slug)
KeyOf(v, query, ref) == IF v = "fetch" THEN <<query.career_type, query.category, ref>> ELSE <<ref>>

Det(ok, data) == [ok |-> ok, data |-> data]

Enr(ok, url) == [ok |-> ok, url |-> url]

\* what the image service can answer: an exception, the URL the row already
\* has, or a URL the row does not have (the job service alone can hand back
\* an empty URL)
EnrOutcomes(v, existing) ==
  {Enr(FALSE, EmptyStr), Enr(TRUE, IF existing = UrlU THEN UrlV ELSE UrlU)}
    \cup (IF existing # EmptyStr THEN {Enr(TRUE, existing)} ELSE {})
    \cup (IF v = "job" THEN {Enr(TRUE, EmptyStr)} ELSE {})

StoreFaults(v) == IF v = "job" THEN {"none", "create", "save"} ELSE {"none", "save"}

\* --------------------------------------------------------- command options
\* --max-rows
MaxRowsOptions == {0, 1, 2}

\* --no-images / --refresh-images (refreshing is moot once images are off)
ImageOptions(v) ==
  IF v = "job" THEN {<<FALSE, FALSE>>, <<TRUE, FALSE>>}
  ELSE {<<FALSE, FALSE>>, <<TRUE, FALSE>>, <<FALSE, TRUE>>}

Options(v) ==
  {[max_rows |-> m, no_images |-> i[1], refresh_images |-> i[2], start_url |-> u, limit |-> l, route |-> r] :
     m \in MaxRowsOptions, i \in ImageOptions(v),
     u \in (IF v = "apprenticeship" THEN {NoUrl, "p1"} ELSE {NoUrl}),
     l \in (IF v = "fetch" THEN {0, 1} ELSE {0}),
     r \in (IF v = "fetch" THEN {"category", "both"} ELSE {"both"})}

\* the ordered queries of a run
PlanOf(v, o, site) ==
  IF v = "apprenticeship" /\ o.start_url # NoUrl
  THEN <<Query("category", EmptyStr, EmptyStr, o.start_url)>>
  ELSE IF v = "fetch"
  THEN (IF o.route \in {"category", "both"} THEN site.plan ELSE << >>)
         \o (IF o.route \in {"sector", "both"} THEN site.sectors ELSE << >>)
  ELSE site.plan

\* one item processed by the command of vertical v
ProcessItem(v, st, listed, query, run, now, o, det, fault, enr) ==
  LET key == KeyOf(v, query, listed.ref)
  IN  IF v = "apprenticeship"
      THEN ApprProcessOne(st, listed, key, query.category, query.subcategory, run, now,
                          o.no_images, o.refresh_images, det, fault, enr)
      ELSE IF v = "job"
      THEN JobProcessJob(st, listed, key, query.category, query.subcategory, run, now,
                         o.no_images, det, fault, enr)
      ELSE FetchProcessJob(st, key, run, now, o.no_images, o.refresh_images, det, fault, enr)

\* ------------------------------------------------- stores of earlier runs
EmptyStore == << >>

PriorQuery == Query("category", CatA, SubA, "p1")

\* The store an earlier run (run id 0) left behind: nothing, or r1 as that
\* run ingested it, with or without an image, and (apprenticeship) through
\* the start-url mode that records no category.
PriorRuns(v) ==
  LET item == Listed("r1", TitleA, EmptyStr)
      det == Det(TRUE, Data(TitleA, WageW))
      o(noimg) == [max_rows |-> 0, no_images |-> noimg, refresh_images |-> FALSE,
                   start_url |-> NoUrl, limit |-> 0, route |-> "both"]
      run(q, noimg) == ProcessItem(v, EmptyStore, item, q, 0, 0, o(noimg), det, "none", Enr(TRUE, UrlU))
      rec(q, noimg) == [store |-> run(q, noimg).store,
                        prev |-> (KeyOf(v, q, "r1") :> run(q, noimg).input)]
  IN  {[store |-> EmptyStore, prev |-> << >>], rec(PriorQuery, FALSE), rec(PriorQuery, TRUE)}
        \cup (IF v = "apprenticeship"
              THEN {rec(Query("category", EmptyStr, EmptyStr, "p1"), TRUE)} ELSE {})

\* ------------------------------------------------------------------ state
VARIABLES
  vertical,       \* which command runs
  opts,           \* its command-line options
  site,           \* name of the website snapshot the run meets
  store,          \* the entity table: key -> row
  run_id,         \* uuid of the run
  clock,          \* timezone.now()
  pc,             \* "query", "iter", "done" or "aborted"
  q,              \* index of the current query in the plan
  gen,            \* the paging generator: next url, seen urls, items not yet yielded
  routes_done,    \* career-profile routes whose index page has been fetched
  seen_refs,      \* seen_refs / seen_job_ids
  counts,         \* created / updated / skipped / error counters
  subcount,       \* per-subtype count of the career-profile command
  profile_cache,  \* profile_cache of the career-profile command
  log,            \* audit rows written by this run
  yielded,        \* number of items the listing generator has yielded
  accepted,       \* yielded items the loop went on to process
  faults,         \* faults so far
  lastHttp,       \* the most recent HTTP request: whether should_stop() held when it started, whether
                  \* time.sleep(delay) followed it (slept) and had followed the one before it (gap)
  last,           \* what the most recent item processing did
  prev,           \* per key, the values of the most recent committed upsert
  hook_calls,     \* per key, how often this run invoked the image hook
  links,          \* next links of the synthetic listing (empty unless site = "synthetic")
  crawl,          \* the listing pages the current paging generator has requested, in order
  pure            \* a page handed to one of the scrapers' parsing functions, and what it returned

vars == <<vertical, opts, site, store, run_id, clock, pc, q, gen, routes_done, seen_refs, counts,
          subcount, profile_cache, log, yielded, accepted, faults, lastHttp, last, prev,
          hook_calls, links, crawl, pure>>

static == <<vertical, opts, site, run_id, links, pure>>

Site == IF site = "synthetic" THEN SiteSynthetic(links) ELSE SiteOf(site)

Plan == PlanOf(vertical, opts, Site)

NoGen == [url |-> NoUrl, seen |-> {}, buf |-> << >>]

\* no page is being parsed
NoPure == [fn |-> "none", done |-> FALSE]

\* no paging generator is running
NoCrawl == [start |-> NoUrl, order |-> << >>, finished |-> FALSE]

NoLast == [item |-> 0, key |-> << >>, before |-> << >>, after |-> << >>, status |-> "none", upsert |-> "none",
           changed |-> << >>, hook |-> NoHook, input |-> NoInput, prior |-> << >>,
           entries |-> << >>, counts |-> Counts(0, 0, 0, 0), fetched |-> FALSE,
           imageFailed |-> FALSE, stopBefore |-> FALSE, total |-> 0, upserted |-> << >>, size |-> 0,
           detail |-> NoInput.data, listed |-> NoInput.data,
           at |-> <<0, 0, 0>>, atPrev |-> <<0, 0, 0>>, pages |-> 0,
           lone |-> [status |-> "none", counts |-> Counts(0, 0, 0, 0)]]

Init ==
  /\ vertical \in Verticals
  /\ opts \in Options(vertical)
  /\ site \in SiteNames
  /\ \E p \in PriorRuns(vertical) : store = p.store /\ prev = [k \in DOMAIN p.prev |-> [input |-> p.prev[k], run |-> 0]]
  /\ run_id = 1
  /\ clock = 1
  /\ pc = "query"
  /\ q = 1
  /\ gen = NoGen
  /\ routes_done = {}
  /\ seen_refs = {}
  /\ counts = Counts(0, 0, 0, 0)
  /\ subcount = 0
  /\ profile_cache = << >>
  /\ log = << >>
  /\ yielded = 0
  /\ accepted = {}
  /\ faults = 0
  /\ lastHttp = [kind |-> "none", stop |-> FALSE, slept |-> TRUE, gap |-> TRUE]
  /\ last = NoLast
  /\ hook_calls = << >>
  /\ links = << >>
  /\ crawl = NoCrawl
  /\ pure = NoPure

\* a stop condition that lets one more row through
StopReachedMut(max_rows, done) == (max_rows > 0) /\ (done > max_rows)

\* should_stop()
StopReached(max_rows, done) == (max_rows > 0) /\ (done >= max_rows)

ShouldStop == StopReached(opts.max_rows, counts.created + counts.updated)

\* the career-profile command fetches an index page before each route
DiscoverRoute ==
  IF vertical # "fetch" THEN "none"
  ELSE IF opts.route \in {"category", "both"} /\ "category" \notin routes_done THEN "category"
  ELSE IF opts.route \in {"sector", "both"} /\ "sector" \notin routes_done
          /\ (q > Len(Plan) \/ Plan[q].career_type = "sector") /\ ~ShouldStop THEN "sector"
  ELSE "none"

\* get_categories / get_sectors succeed
Discover ==
  /\ pc = "query" /\ DiscoverRoute # "none"
  /\ routes_done' = routes_done \cup {DiscoverRoute}
  /\ lastHttp' = [kind |-> "index", stop |-> ShouldStop, slept |-> TRUE, gap |-> lastHttp.slept]
  /\ UNCHANGED <<static, store, clock, pc, q, gen, seen_refs, counts, subcount, profile_cache,
                 log, yielded, accepted, faults, last, prev, hook_calls, crawl>>

\* get_categories / get_sectors raise: nothing catches it
DiscoverFails ==
  /\ pc = "query" /\ DiscoverRoute # "none" /\ faults < MaxFaults
  /\ pc' = "aborted"
  /\ faults' = faults + 1
  /\ lastHttp' = [kind |-> "index", stop |-> ShouldStop, slept |-> FALSE, gap |-> lastHttp.slept]
  /\ UNCHANGED <<static, store, clock, q, gen, routes_done, seen_refs, counts, subcount,
                 profile_cache, log, yielded, accepted, last, prev, hook_calls, crawl>>

\* top of the category / subcategory loops: the next query starts
BeginQuery ==
  /\ pc = "query" /\ DiscoverRoute = "none"
  /\ q <= Len(Plan) /\ ~ShouldStop
  /\ pc' = "iter"
  /\ gen' = [url |-> Plan[q].start, seen |-> {}, buf |-> << >>]
  /\ subcount' = 0
  /\ crawl' = [start |-> Plan[q].start, order |-> << >>, finished |-> FALSE]
  /\ UNCHANGED <<static, store, clock, q, routes_done, seen_refs, counts, profile_cache, log,
                 yielded, accepted, faults, lastHttp, last, prev, hook_calls>>

\* the loops are left (plan exhausted or should_stop()) and the summary is written
FinishRun ==
  /\ pc = "query" /\ DiscoverRoute = "none"
  /\ (q > Len(Plan) \/ ShouldStop)
  /\ pc' = "done"
  /\ UNCHANGED <<static, store, clock, q, gen, routes_done, seen_refs, counts, subcount,
                 profile_cache, log, yielded, accepted, faults, lastHttp, last, prev, hook_calls, crawl>>

\* a paging loop without the seen-URL guard
MorePagesMut(g) == g.url # NoUrl

\* iter_pages: while url and url not in seen
MorePages(g) == g.url # NoUrl /\ g.url \notin g.seen

\* a generator that asks for the next page while the last item of the page is still to be yielded
PageDrainedMut(g) == Len(g.buf) <= 1

\* iter_all_vacancies: the loop over a page's items has to end before iter_pages is resumed
PageDrained(g) == g.buf = << >>

\* iter_pages asks for the next listing page and gets it; each item is marked with the number
\* of its page within the query and its place on the page
FetchListingPage ==
  /\ pc = "iter" /\ PageDrained(gen) /\ MorePages(gen)
  /\ gen' = [url |-> Site.pages[gen.url].next, seen |-> gen.seen \cup {gen.url},
             buf |-> gen.buf \o [i \in 1..Len(Site.pages[gen.url].items) |->
                                   Site.pages[gen.url].items[i]
                                     @@ [page |-> Len(crawl.order) + 1, pos |-> i]]]
  /\ lastHttp' = [kind |-> "listing", stop |-> ShouldStop, slept |-> TRUE, gap |-> lastHttp.slept]
  /\ crawl' = [crawl EXCEPT !.order = Append(@, gen.url)]
  /\ UNCHANGED <<static, store, clock, pc, q, routes_done, seen_refs, counts, subcount,
                 profile_cache, log, yielded, accepted, faults, last, prev, hook_calls>>

\* soup() raises inside the generator: the exception leaves handle()
FetchListingPageFails ==
  /\ pc = "iter" /\ PageDrained(gen) /\ MorePages(gen) /\ faults < MaxFaults
  /\ pc' = "aborted"
  /\ faults' = faults + 1
  /\ lastHttp' = [kind |-> "listing", stop |-> ShouldStop, slept |-> FALSE, gap |-> lastHttp.slept]
  /\ crawl' = [crawl EXCEPT !.order = Append(@, gen.url)]
  /\ UNCHANGED <<static, store, clock, q, gen, routes_done, seen_refs, counts, subcount,
                 profile_cache, log, yielded, accepted, last, prev, hook_calls>>

\* the generator is exhausted: on to the next query
EndOfPages ==
  /\ pc = "iter" /\ PageDrained(gen) /\ ~MorePages(gen)
  /\ pc' = "query" /\ q' = q + 1 /\ gen' = NoGen
  /\ crawl' = [crawl EXCEPT !.finished = TRUE]
  /\ UNCHANGED <<static, store, clock, routes_done, seen_refs, counts, subcount, profile_cache,
                 log, yielded, accepted, faults, lastHttp, last, prev, hook_calls>>

\* an item is yielded and the loop breaks on should_stop()
StopAtItem ==
  /\ pc = "iter" /\ gen.buf # << >> /\ ShouldStop
  /\ yielded' = yielded + 1
  /\ pc' = "query" /\ q' = q + 1 /\ gen' = NoGen
  /\ UNCHANGED <<static, store, clock, routes_done, seen_refs, counts, subcount, profile_cache,
                 log, accepted, faults, lastHttp, last, prev, hook_calls, crawl>>

\* per_subtype_limit and count >= per_subtype_limit
LimitReached == vertical = "fetch" /\ opts.limit > 0 /\ subcount >= opts.limit

\* an item is yielded and the loop breaks on the per-subtype limit
LimitBreak ==
  /\ pc = "iter" /\ gen.buf # << >> /\ ~ShouldStop /\ LimitReached
  /\ yielded' = yielded + 1
  /\ pc' = "query" /\ q' = q + 1 /\ gen' = NoGen
  /\ UNCHANGED <<static, store, clock, routes_done, seen_refs, counts, subcount, profile_cache,
                 log, accepted, faults, lastHttp, last, prev, hook_calls, crawl>>

\* a loop that does not remember the references it has processed
AlreadySeenMut(ref) == FALSE

\* listed.vacancy_ref in seen_refs
AlreadySeen(ref) == vertical # "fetch" /\ ref \in seen_refs

\* an item is yielded and passed over because its reference was seen in this run
SkipSeen ==
  /\ pc = "iter" /\ gen.buf # << >> /\ ~ShouldStop /\ ~LimitReached
  /\ AlreadySeen(Head(gen.buf).ref)
  /\ yielded' = yielded + 1
  /\ gen' = [gen EXCEPT !.buf = Tail(@)]
  /\ UNCHANGED <<static, store, clock, pc, q, routes_done, seen_refs, counts, subcount,
                 profile_cache, log, accepted, faults, lastHttp, last, prev, hook_calls, crawl>>

\* audit rows of one item when only the first entry is written
LogRowsMut(entries, item, key) ==
  [i \in 1..(IF Len(entries) > 1 THEN 1 ELSE Len(entries)) |->
     [item |-> item, key |-> key, status |-> entries[i].status, message |-> entries[i].message]]

\* audit rows of one item, as written
LogRows(entries, item, key) ==
  [i \in 1..Len(entries) |-> [item |-> item, key |-> key, status |-> entries[i].status,
                              message |-> entries[i].message]]

\* an item is yielded and processed: detail page, merge, upsert, image, audit rows, counters
Process ==
  /\ pc = "iter" /\ gen.buf # << >> /\ ~ShouldStop /\ ~LimitReached
  /\ ~AlreadySeen(Head(gen.buf).ref)
  /\ LET listed == Head(gen.buf)
         key == KeyOf(vertical, Plan[q], listed.ref)
         cached == vertical = "fetch" /\ listed.ref \in DOMAIN profile_cache
         existing == IF key \in DOMAIN store THEN store[key].image_url ELSE EmptyStr
     IN  \E ok \in BOOLEAN, fault \in StoreFaults(vertical), enr \in EnrOutcomes(vertical, existing) :
         \E res \in {ProcessItem(vertical, store, listed, Plan[q], run_id, clock, opts,
                                  IF cached THEN Det(TRUE, profile_cache[listed.ref])
                                  ELSE Det(ok, Site.detail[listed.ref]), fault, enr)} :
           LET det == IF cached THEN Det(TRUE, profile_cache[listed.ref])
                      ELSE Det(ok, Site.detail[listed.ref])
               imageFailed == res.hook.called /\ ~enr.ok
               used == (IF ~det.ok THEN 1 ELSE 0)
                         + (IF res.status = "error" /\ det.ok THEN 1 ELSE 0)
                         + (IF imageFailed THEN 1 ELSE 0)
           IN  /\ cached => ok
               /\ faults + used <= MaxFaults
               /\ faults' = faults + used
               /\ store' = res.store
               /\ log' = log \o LogRows(res.entries, yielded + 1, key)
               /\ counts' = AddCounts(counts, res.counts)
               /\ profile_cache' = IF vertical = "fetch" /\ ~cached /\ det.ok
                                   THEN profile_cache @@ (listed.ref :> det.data)
                                   ELSE profile_cache
               /\ lastHttp' = IF cached THEN lastHttp
                              ELSE [kind |-> "detail", stop |-> ShouldStop, slept |-> det.ok,
                                    gap |-> lastHttp.slept]
               /\ prev' = IF res.upsert = "none" THEN prev
                          ELSE [k \in DOMAIN prev \cup {key} |->
                                  IF k = key THEN [input |-> res.input, run |-> run_id] ELSE prev[k]]
               /\ hook_calls' = IF ~res.hook.called THEN hook_calls
                                ELSE [k \in DOMAIN hook_calls \cup {key} |->
                                        IF k = key
                                        THEN (IF key \in DOMAIN hook_calls THEN hook_calls[key] ELSE 0) + 1
                                        ELSE hook_calls[k]]
               /\ last' = [item |-> yielded + 1, key |-> key,
                           before |-> IF key \in DOMAIN store THEN <<store[key]>> ELSE << >>,
                           after |-> IF key \in DOMAIN res.store THEN <<res.store[key]>> ELSE << >>,
                           status |-> res.status, upsert |-> res.upsert, changed |-> res.changed,
                           hook |-> res.hook, input |-> res.input,
                           prior |-> IF key \in DOMAIN prev THEN <<prev[key]>> ELSE << >>,
                           entries |-> res.entries, counts |-> res.counts, fetched |-> ~cached,
                           imageFailed |-> imageFailed, stopBefore |-> ShouldStop,
                           total |-> counts.created + counts.updated,
                           upserted |-> res.upserted,
                           size |-> Cardinality(DOMAIN store),
                           detail |-> det.data,
                           listed |-> [title |-> listed.title, wage |-> listed.wage],
                           at |-> <<q, listed.page, listed.pos>>, atPrev |-> last.at,
                           pages |-> Len(crawl.order),
                           lone |-> LET alone == ProcessItem(vertical, store, listed, Plan[q], run_id,
                                                             clock, [opts EXCEPT !.no_images = TRUE],
                                                             det, fault, enr)
                                    IN  [status |-> alone.status, counts |-> alone.counts]]
  /\ yielded' = yielded + 1
  /\ accepted' = accepted \cup {yielded + 1}
  /\ seen_refs' = IF vertical = "fetch" THEN seen_refs ELSE seen_refs \cup {Head(gen.buf).ref}
  /\ subcount' = subcount + 1
  /\ clock' = clock + 1
  /\ gen' = [gen EXCEPT !.buf = Tail(@)]
  /\ UNCHANGED <<static, pc, q, routes_done, crawl>>

Next ==
  \/ Discover
  \/ DiscoverFails
  \/ BeginQuery
  \/ FinishRun
  \/ FetchListingPage
  \/ FetchListingPageFails
  \/ EndOfPages
  \/ StopAtItem
  \/ LimitBreak
  \/ SkipSeen
  \/ Process

Spec == Init /\ [][Next]_vars

\* ---------------------------------------------- one crawl, run to its end
PageNames == <<"p1", "p2", "p3", "p4", "p5">>

PageUrls == {PageNames[i] : i \in 1..MaxPages}

\* every way of linking the pages: each has no next link or links to any page, itself included
LinkGraphs == [PageUrls -> PageUrls \cup {NoUrl}]

\* iter_all_vacancies(start_url=...) consumed by a plain for loop
CrawlInit ==
  /\ vertical \in {"apprenticeship", "fetch"}
  /\ opts = [max_rows |-> 0, no_images |-> TRUE, refresh_images |-> FALSE,
             start_url |-> NoUrl, limit |-> 0, route |-> "category"]
  /\ site = "synthetic"
  /\ links \in LinkGraphs
  /\ \E start \in PageUrls :
       /\ gen = [url |-> start, seen |-> {}, buf |-> << >>]
       /\ crawl = [start |-> start, order |-> << >>, finished |-> FALSE]
  /\ store = EmptyStore /\ prev = << >>
  /\ run_id = 1 /\ clock = 1
  /\ pc = "iter" /\ q = 1
  /\ routes_done = {"category"}
  /\ seen_refs = {}
  /\ counts = Counts(0, 0, 0, 0)
  /\ subcount = 0
  /\ profile_cache = << >>
  /\ log = << >>
  /\ yielded = 0
  /\ accepted = {}
  /\ faults = 0
  /\ lastHttp = [kind |-> "none", stop |-> FALSE, slept |-> TRUE, gap |-> TRUE]
  /\ last = NoLast
  /\ hook_calls = << >>
  /\ pure = NoPure

\* the for loop takes the next item the generator yields
TakeItem ==
  /\ pc = "iter" /\ gen.buf # << >>
  /\ yielded' = yielded + 1
  /\ gen' = [gen EXCEPT !.buf = Tail(@)]
  /\ UNCHANGED <<static, store, clock, pc, q, routes_done, seen_refs, counts, subcount,
                 profile_cache, log, accepted, faults, lastHttp, last, prev, hook_calls, crawl>>

CrawlNext ==
  \/ FetchListingPage
  \/ TakeItem
  \/ EndOfPages

\* the generator and its consumer are one sequential process: a step that can be taken is taken
CrawlSpec == CrawlInit /\ [][CrawlNext]_vars /\ WF_vars(CrawlNext)

\* ------------------------------------------------- one page, parsed once
\* the pound sign
Pound == "#"

WageLabel == <<"W", "a", "g", "e">>

CourseLabel == <<"T","r","a","i","n","i","n","g"," ","c","o","u","r","s","e">>

SixForty == <<Pound, "6", ".", "4", "0", " ", "a", "n", " ", "h", "o", "u", "r">>

\* "label: remainder"
InlineLine(label, remainder) == label \o <<":", " ">> \o remainder

\* lines as _lines returns them: stripped and not empty
SummaryLines ==
  { WageLabel,
    WageLabel \o <<":">>,
    InlineLine(WageLabel, SixForty),
    WageLabel \o <<" ">> \o SixForty,
    SixForty,
    CourseLabel,
    InlineLine(CourseLabel, TitleA),
    CourseLabel \o <<" ", " ">> \o TitleA }

Summaries == UNION {[1..n -> SummaryLines] : n \in 0..MaxLines}

DocKinds == {"div", "h2", "a1", "a2", "text"}

DocsOfSize(n) ==
  { [parent |-> p, kind |-> k] :
      p \in {f \in [1..n -> 0..(n - 1)] : f[1] = 0 /\ \A i \in 2..n : f[i] \in 1..(i - 1)},
      k \in {g \in [1..n -> DocKinds \cup {"main"}] : g[1] = "main" /\ \A i \in 2..n : g[i] \in DocKinds} }

\* a link to r1 nested so deeply that the climb gives up below the only div
DeepDoc ==
  [parent |-> [n \in 1..(ClimbLimit + 2) |-> n - 1],
   kind |-> [n \in 1..(ClimbLimit + 2) |->
               IF n = 1 THEN "main" ELSE IF n = 2 THEN "div"
               ELSE IF n = ClimbLimit + 2 THEN "a1" ELSE "h2"]]

Docs == UNION {DocsOfSize(n) : n \in 2..MaxNodes} \cup {DeepDoc}

CardVerticals == {"apprenticeship", "course", "job"}

\* scraped values: a text, possibly with white space around it
ScrapedValues ==
  { lead \o core \o trail :
      lead \in {EmptyStr, <<" ">>, <<"\t", " ">>},
      trail \in {EmptyStr, <<" ">>, <<"\n">>},
      core \in { EmptyStr, <<"-">>, <<"n", "/", "a">>, <<"N", "/", "A">>, <<"T", "B", "C">>,
                 <<"N", "/", "A", " ", "f", "e", "e">>, <<"n", "a">>, <<"-", "-">>,
                 <<"T", "b", "c", " ", "-">>, <<"a", " ", "-">>,
                 <<"c","o","m","p","e","t","i","t","i","v","e">>,
                 <<"C","o","n","t","a","c","t"," ","p","r","o","v","i","d","e","r">>,
                 <<"n", "o", "t", " ", " ", "a","v","a","i","l","a","b","l","e">>, TitleA } }

\* the children of a detail page's main element, the first being a section heading
SiblingLists ==
  UNION { {[i \in 1..n |-> [id |-> i, kind |-> k[i]]] :
             k \in {f \in [1..n -> {"h2", "p", "str"}] : f[1] = "h2"}} : n \in 1..MaxNodes }

PureInit ==
  /\ pure \in [fn : {"label"}, done : {FALSE}, lines : Summaries, label : {WageLabel, CourseLabel},
               listed : {EmptyStr, WageW}]
          \cup [fn : {"card"}, done : {FALSE}, v : CardVerticals, doc : Docs]
          \cup [fn : {"emptyish"}, done : {FALSE}, val : ScrapedValues]
          \cup [fn : {"section"}, done : {FALSE}, sibs : SiblingLists]
  /\ vertical = "apprenticeship"
  /\ opts = [max_rows |-> 0, no_images |-> TRUE, refresh_images |-> FALSE,
             start_url |-> NoUrl, limit |-> 0, route |-> "category"]
  /\ site = "five"
  /\ links = << >>
  /\ gen = NoGen
  /\ crawl = NoCrawl
  /\ store = EmptyStore /\ prev = << >>
  /\ run_id = 1 /\ clock = 1
  /\ pc = "done" /\ q = 1
  /\ routes_done = {}
  /\ seen_refs = {}
  /\ counts = Counts(0, 0, 0, 0)
  /\ subcount = 0
  /\ profile_cache = << >>
  /\ log = << >>
  /\ yielded = 0
  /\ accepted = {}
  /\ faults = 0
  /\ lastHttp = [kind |-> "none", stop |-> FALSE, slept |-> TRUE, gap |-> TRUE]
  /\ last = NoLast
  /\ hook_calls = << >>

engine == <<vertical, opts, site, store, run_id, clock, pc, q, gen, routes_done, seen_refs, counts,
            subcount, profile_cache, log, yielded, accepted, faults, lastHttp, last, prev,
            hook_calls, links, crawl>>

\* scrape_vacancy_detail reads one Summary value and _process_one merges it with the listing's
ReadSummaryValue ==
  /\ pure.fn = "label" /\ ~pure.done
  /\ \E value \in {FindAfterLabel(pure.lines, pure.label)} :
       pure' = [fn |-> "label", done |-> TRUE, lines |-> pure.lines, label |-> pure.label,
                listed |-> pure.listed, value |-> value,
                merged |-> ApprMergeField(value, pure.listed)]
  /\ UNCHANGED engine

\* one listing page goes through the extraction loop
ExtractItems ==
  /\ pure.fn = "card" /\ ~pure.done
  /\ pure' = [fn |-> "card", done |-> TRUE, v |-> pure.v, doc |-> pure.doc,
              items |-> ExtractFromList(pure.v, pure.doc),
              found |-> [a \in {n \in 1..Len(pure.doc.parent) : IsItemLink(pure.v, pure.doc, n)} |->
                           FindResultCard(pure.v, pure.doc, a, Anchors[pure.doc.kind[a]])]]
  /\ UNCHANGED engine

\* a scraped value is put to the _is_emptyish of the apprenticeship and of the course command
TestEmptyish ==
  /\ pure.fn = "emptyish" /\ ~pure.done
  /\ pure' = [fn |-> "emptyish", done |-> TRUE, val |-> pure.val,
              appr |-> IsEmptyish(pure.val), course |-> CourseIsEmptyish(pure.val)]
  /\ UNCHANGED engine

\* the section of the first heading is collected, and then collected again
CollectSection ==
  /\ pure.fn = "section" /\ ~pure.done
  /\ \E prefetch \in BOOLEAN :
       \E first \in {CollectUntilNextH2(pure.sibs, 1, prefetch)} :
         pure' = [fn |-> "section", done |-> TRUE, sibs |-> pure.sibs,
                  first |-> first.scope, rest |-> first.rest,
                  second |-> CollectUntilNextH2(first.rest, 1, prefetch).scope]
  /\ UNCHANGED engine

PureNext ==
  \/ ReadSummaryValue
  \/ ExtractItems
  \/ TestEmptyish
  \/ CollectSection

PureSpec == PureInit /\ [][PureNext]_vars

TypeOK ==
  /\ pc \in {"query", "iter", "done", "aborted"}
  /\ faults \in 0..MaxFaults
  /\ \A k \in DOMAIN store : DOMAIN store[k] = DOMAIN DefaultRow

\* ------------------------------------------------------------ properties
TerminalStatuses == {"error", "created", "updated", "skipped"}

RowsOf(item, statuses) == {i \in 1..Len(log) : log[i].item = item /\ log[i].status \in statuses}

\* the business values a committed upsert was given, as the command's new_vals holds them
Supplied(v, input) ==
  LET nv == IF v = "fetch" THEN FetchNewVals(input.data, 0, 0)
            ELSE ApprNewVals(input.data, input.category, input.subcategory, 0, 0)
  IN  [f \in DOMAIN nv \ UpsertLoopSkip |-> nv[f]]

\* the last item went through _upsert_smart and the call committed
SmartUpsertDone == vertical \in {"apprenticeship", "fetch"} /\ last.upsert # "none"

\* ... and it repeated, under another run id, the values of the previous upsert of the key
RepeatedUpsert ==
  /\ SmartUpsertDone /\ last.prior # << >>
  /\ last.prior[1].input = last.input /\ last.prior[1].run # run_id

\* C1: an upsert that repeats, under a different run id, the field values of
\* the previous upsert of the same reference returns 'skipped' with no
\* changed field and leaves every business field of the stored row as it was.
C1_UpsertIdempotent ==
  RepeatedUpsert =>
    /\ last.upsert = "skipped" /\ last.changed = << >>
    /\ \A f \in BusinessFields : last.after[1][f] = last.before[1][f]

C1_Witness == RepeatedUpsert /\ last.status = "skipped" /\ last.before[1].last_scrape_run_id = 0

\* C2: for an upsert on a stored row the status is 'updated' exactly when a
\* supplied field differs from the stored value, the changed fields are
\* exactly the supplied fields that differ, and afterwards every supplied
\* field holds its new value.
C2_UpsertDiff ==
  (SmartUpsertDone /\ last.before # << >>) =>
    LET nv == Supplied(vertical, last.input)
        differing == {f \in DOMAIN nv : last.before[1][f] # nv[f]}
    IN  /\ (last.upsert = "updated") <=> (differing # {})
        /\ last.upsert \in {"updated", "skipped"}
        /\ Range(last.changed) = differing
        /\ Len(last.changed) = Cardinality(differing)
        /\ \A f \in DOMAIN nv : last.after[1][f] = nv[f]

C2_Witness ==
  /\ SmartUpsertDone /\ last.before # << >>
  /\ last.before[1].title = TitleA /\ last.after[1].title = TitleB
  /\ last.upsert = "updated" /\ last.changed = <<"title">>

\* C3 as stated: at the end of a run every item the listing generator
\* yielded has exactly one terminal audit row and at most one image_error row.
C3_EveryYieldedItemAudited ==
  pc = "done" =>
    \A i \in 1..yielded : /\ Cardinality(RowsOf(i, TerminalStatuses)) = 1
                          /\ Cardinality(RowsOf(i, {"image_error"})) <= 1

\* C3 amended: every yielded item the loop accepts for processing has exactly
\* one terminal audit row and at most one image_error row; a yielded item
\* the loop drops (stop condition, per-subtype limit, reference already
\* seen) has no audit row.
C3_AcceptedItemsAudited ==
  \A i \in 1..yielded :
    IF i \in accepted
    THEN /\ Cardinality(RowsOf(i, TerminalStatuses)) = 1
         /\ Cardinality(RowsOf(i, {"image_error"})) <= 1
         /\ RowsOf(i, TerminalStatuses \cup {"image_error"}) = {j \in 1..Len(log) : log[j].item = i}
    ELSE {j \in 1..Len(log) : log[j].item = i} = {}

C3_Witness ==
  /\ pc = "done" /\ accepted # {} /\ Cardinality(accepted) < yielded
  /\ \E i \in accepted : Cardinality(RowsOf(i, {"image_error"})) = 1

\* C4: when the detail fetch or the upsert of an item raises, one 'error'
\* audit row carrying the exception message is written, the stored row of
\* that reference is left as it was, and the run goes on.
C4_ErrorIsolation ==
  (vertical \in {"apprenticeship", "job"} /\ last.status = "error") =>
    /\ Cardinality(RowsOf(last.item, {"error"})) = 1
    /\ \A j \in RowsOf(last.item, {"error"}) : log[j].message # << >>
    /\ last.after = last.before

\* C5: no HTTP failure, on a detail page or on a listing page, keeps the
\* run from reaching its summary.
C5_RunSurvives == pc # "aborted"

\* C6: no HTTP request starts while the stop condition holds.
C6_NoRequestOnceStopped == ~lastHttp.stop

\* every stored row was created by this run (the store was empty before it)
AllNew == \A k \in DOMAIN store : store[k].last_scrape_run_id = run_id /\ store[k].last_scrape_status = "created"

\* C7: with max_rows = N > 0, created + updated never exceeds N, no item is
\* processed once it equals N, and a fault-free run with N = 2 (and no
\* per-subtype limit) over the five new items of the two-page listing
\* creates exactly two entities and writes exactly two audit rows.
C7_RowCeiling ==
  /\ opts.max_rows > 0 => counts.created + counts.updated <= opts.max_rows
  /\ (opts.max_rows > 0 /\ last.item > 0) => last.total < opts.max_rows
  /\ (pc = "done" /\ opts.max_rows = 2 /\ site = "five" /\ opts.limit = 0 /\ faults = 0 /\ AllNew) =>
       /\ counts.created = 2 /\ counts.updated = 0
       /\ Cardinality(DOMAIN store) = 2
       /\ Len(log) = 2
       /\ accepted = {1, 2}

C7_Witness ==
  /\ pc = "done" /\ opts.max_rows = 2 /\ site = "five" /\ opts.limit = 0 /\ faults = 0 /\ AllNew
  /\ counts.created = 2 /\ Cardinality(DOMAIN store) = 2 /\ yielded = 3 /\ accepted = {1, 2}

C9_EnrichmentIsolation ==
  /\ \A j \in 1..Len(log) :
       log[j].status = "image_error" =>
         /\ Cardinality(RowsOf(log[j].item, {"image_error"})) = 1
         /\ Cardinality(RowsOf(log[j].item, TerminalStatuses)) = 1
  /\ (last.imageFailed /\ last.upsert # "none") =>
       /\ \A j \in RowsOf(last.item, TerminalStatuses) : log[j].status = last.upsert
       /\ last.status = last.upsert
       /\ last.counts[last.upsert] = 1
       /\ last.after[1].last_scrape_status = last.upsert
       /\ last.after[1].title = Supplied(IF vertical = "job" THEN "fetch" ELSE vertical, last.input).title
             \/ vertical = "job"
       /\ vertical = "job" => last.after[1].title = last.input.data.title
       /\ last.after[1].image_url = (IF last.before = << >> THEN EmptyStr ELSE last.before[1].image_url)
  /\ (last.imageFailed /\ pc = "aborted") => lastHttp.kind \in {"listing", "index"}

C9_Witness ==
  /\ last.item > 1 /\ last.status \in {"created", "updated", "skipped"}
  /\ \E j \in 1..Len(log) : log[j].status = "image_error" /\ log[j].item < last.item
                              /\ \E k \in RowsOf(log[j].item, {"created", "updated", "skipped"}) : k > j

\* C10 as stated: in every vertical the hook runs only for a row without an
\* image or under --refresh-images, and never under --no-images.
C10_EnrichmentGuardEverywhere ==
  last.hook.called => (~opts.no_images /\ (Strip(last.hook.existing) = EmptyStr \/ opts.refresh_images))

\* C10 amended: outside the job command the hook runs only for a row
\* without an image or under --refresh-images; the job command runs it for
\* every processed item; no command runs it under --no-images.
C10_EnrichmentGuard ==
  last.hook.called =>
    /\ ~opts.no_images
    /\ vertical # "job" => (Strip(last.hook.existing) = EmptyStr \/ opts.refresh_images)

C10_Witness ==
  /\ last.hook.called /\ vertical = "fetch" /\ last.hook.existing # EmptyStr /\ opts.refresh_images

\* C11: within one run the image hook is invoked at most once per stored
\* entity, also when the same identifier is listed on several pages of one
\* query or under several queries.
C11_EnrichmentAtMostOnce == \A k \in DOMAIN hook_calls : hook_calls[k] <= 1

\* the pages requested by the current paging generator follow the next
\* links from the start URL, none is requested twice, and a generator that
\* ran to its end stopped at a page without a next link or whose next URL
\* it had already visited
CrawlInOrder ==
  LET order == crawl.order
      n == Len(order)
  IN  /\ \A i, j \in 1..n : i # j => order[i] # order[j]
      /\ n <= Cardinality(DOMAIN Site.pages)
      /\ n > 0 => order[1] = crawl.start
      /\ \A i \in 1..(n - 1) : order[i + 1] = Site.pages[order[i]].next
      /\ crawl.finished =>
           /\ n > 0
           /\ Site.pages[order[n]].next \in {NoUrl} \cup Range(order)
           /\ yielded = n

\* the chain p1 -> p2 -> p3 whose third page has no next link
ThreePageChain ==
  /\ site = "synthetic" /\ crawl.start = "p1"
  /\ links["p1"] = "p2" /\ links["p2"] = "p3" /\ links["p3"] = NoUrl

\* C12: over any finite set of listing pages, cycles and self-links
\* included, a crawl ends, requests each distinct page URL at most once,
\* follows the next links in order from the start URL and stops at the first
\* page without a next link or whose next URL was already visited; on the
\* three-page chain it yields the items of exactly three pages.
C12_PaginationTerminates ==
  /\ []CrawlInOrder
  /\ []((ThreePageChain /\ crawl.finished) => (crawl.order = <<"p1", "p2", "p3">> /\ yielded = 3))
  /\ <>crawl.finished

C12_Witness ==
  /\ site = "synthetic" /\ crawl.finished
  /\ crawl.order = <<"p1", "p2">> /\ links["p2"] = "p1"

\* the last item was processed to a terminal status other than error
Ingested == last.status \in {"created", "updated", "skipped"}

\* C13: after an item is processed in run R with status created, updated or
\* skipped, the stored row carries last_scrape_run_id = R, the
\* last_checked_at of that call and last_scrape_status equal to the
\* returned status, on the skipped path too.
C13_RunIdStamped ==
  Ingested =>
    /\ last.key \in DOMAIN store /\ last.after = <<store[last.key]>>
    /\ store[last.key].last_scrape_run_id = run_id
    /\ store[last.key].last_checked_at = clock - 1
    /\ store[last.key].last_scrape_status = last.status

C13_Witness ==
  /\ last.status = "skipped" /\ last.before # << >>
  /\ last.before[1].last_scrape_run_id = 0 /\ last.before[1].last_scrape_status = "created"
  /\ store[last.key].last_scrape_run_id = 1 /\ store[last.key].last_scrape_status = "skipped"

\* the columns the frame of a skipped upsert speaks about, besides the timestamp and the run id
FrameColumns == DOMAIN DefaultRow \ {"last_checked_at", "last_scrape_run_id"}

\* the last upsert found no changed field
SkippedUpsert == last.upsert = "skipped" /\ last.before # << >> /\ last.upserted # << >>

CreatePath == last.before = << >> /\ last.upsert # "none"

\* the column values a create is given: new_vals (apprenticeship, course,
\* career profiles) or safe_vals (jobs)
CreateValues(v, input) ==
  IF v = "job"
  THEN [title |-> input.data.title, wage |-> input.data.wage,
        category |-> input.category, subcategory |-> input.subcategory]
  ELSE Supplied(v, input)

\* C15: an upsert for a reference with no stored row creates exactly one
\* row holding every supplied value, the category and subcategory included
\* when they are provided, with last_scrape_status 'created', an empty
\* message and the run id of the call, and returns 'created'.
C15_CreatePath ==
  CreatePath =>
    /\ last.upsert = "created" /\ last.status = "created"
    /\ Cardinality(DOMAIN store) = last.size + 1
    /\ last.key \in DOMAIN store
    /\ LET row == last.upserted[1]
           vals == CreateValues(vertical, last.input)
       IN  /\ \A f \in DOMAIN vals : row[f] = vals[f]
           /\ (vertical # "fetch" /\ last.input.category # EmptyStr) =>
                 ("category" \in DOMAIN vals /\ row.category # EmptyStr)
           /\ (vertical # "fetch" /\ last.input.subcategory # EmptyStr) =>
                 ("subcategory" \in DOMAIN vals /\ row.subcategory # EmptyStr)
           /\ row.last_scrape_status = "created"
           /\ row.last_scrape_message = << >>
           /\ row.last_scrape_run_id = run_id

C15_Witness ==
  /\ CreatePath /\ vertical = "apprenticeship" /\ last.status = "created"
  /\ last.input.data.title = LongTitle /\ last.upserted[1].title = Trunc(LongTitle, TitleMaxLen)
  /\ last.upserted[1].category = CatA /\ last.upserted[1].subcategory = SubA
  /\ last.size = 1

\* C16: the store never holds a row in an intermediate state of an upsert,
\* one that carries the business values of a call without the status and
\* run id of that call; an upsert that fails part-way leaves no such row.
C16_UpsertAtomic ==
  \A k \in DOMAIN store :
    /\ store[k].last_scrape_status # ""
    /\ store[k].last_scrape_run_id # Null
    /\ store[k].last_checked_at # Null

\* the external reference of a stored row: the identifier taken from the item's URL
RefOf(k) == k[Len(k)]

\* C17 as stated: the store holds at most one row per external reference,
\* the identifier extracted from the item's URL.
C17_OneRowPerReference ==
  \A k1, k2 \in DOMAIN store : RefOf(k1) = RefOf(k2) => k1 = k2

\* C17 amended: the store holds at most one row per identity key
\* (vacancy_ref, course_id, job_id, or the triple career_type, sub_type,
\* job_slug of a career profile): a command inserts a row only for a key
\* that has none, an upsert on a stored key adds no row, and a stored key
\* stays in the store.
C17_OneRowPerKey ==
  last.item > 0 =>
    /\ last.counts.created = 1 => last.before = << >>
    /\ Cardinality(DOMAIN store) = last.size + (IF last.before = << >> /\ last.after # << >> THEN 1 ELSE 0)
    /\ last.before # << >> => (last.after # << >> /\ last.key \in DOMAIN store)
    /\ last.after # << >> => last.key \in DOMAIN store

C17_Witness ==
  /\ vertical = "fetch" /\ last.before # << >> /\ last.upsert \in {"skipped", "updated"}
  /\ \E k1, k2 \in DOMAIN store : k1 # k2 /\ RefOf(k1) = RefOf(k2)
  /\ Cardinality(DOMAIN store) = last.size

\* the merge rule: the detail value unless it is emptyish, otherwise the
\* listing value, otherwise the empty string
MergeRule(detail, listed) ==
  IF ~IsEmptyish(detail) THEN detail
  ELSE IF listed # EmptyStr THEN listed
  ELSE EmptyStr

\* C18: for every field that the detail record and the listing stub both
\* carry, the record handed to the upsert holds the detail value when that
\* is not emptyish, otherwise the listing value, otherwise the empty string.
C18_MergeRule ==
  (vertical \in {"apprenticeship", "job"} /\ last.upsert # "none") =>
    \A f \in {"title", "wage"} : last.input.data[f] = MergeRule(last.detail[f], last.listed[f])


\* C19: a Summary line made of a label, a colon and a non-empty remainder gives the remainder as
\* the label's value; with the single line "Wage: #6.40 an hour" and an empty listing wage the
\* record handed to the upsert has the wage "#6.40 an hour"
C19_InlineLabel ==
  (pure.fn = "label" /\ pure.done /\ pure.lines = <<InlineLine(pure.label, SixForty)>>)
    => /\ pure.value = SixForty
       /\ (pure.listed = EmptyStr => pure.merged = SixForty)

\* some node from the link upwards holds exactly the link's identifier
HasExactAncestor(doc, a) ==
  \E n \in AncestorsOf(doc, a) \cup {a} : IdsInNode(doc, n) = {Anchors[doc.kind[a]]}

\* C20: every listed item was read from a card from the link upwards whose reachable identifiers
\* are exactly the item's own, and a link without such a node gives no item
C20_CardAttribution ==
  (pure.fn = "card" /\ pure.done)
    => /\ \A i \in 1..Len(pure.items) :
            LET x == pure.items[i]
            IN  /\ x.card \in AncestorsOf(pure.doc, x.link) \cup {x.link}
                /\ IdsInNode(pure.doc, x.card) = {x.ref}
                /\ Anchors[pure.doc.kind[x.link]] = x.ref
       /\ \A a \in 1..Len(pure.doc.parent) :
            (pure.doc.kind[a] \in DOMAIN Anchors /\ ~HasExactAncestor(pure.doc, a))
              => \A i \in 1..Len(pure.items) : pure.items[i].link # a

\* a page with links to both items under one parent and a card of its own for r1
C20_Witness ==
  /\ pure.fn = "card" /\ pure.done
  /\ {"a1", "a2"} \subseteq Range(pure.doc.kind)
  /\ Len(pure.items) = 1
  /\ \E a \in 1..Len(pure.doc.parent) :
       pure.doc.kind[a] \in DOMAIN Anchors /\ \A i \in 1..Len(pure.items) : pure.items[i].link # a

\* C21: every HTTP request of a run starts after the configured delay has elapsed since the
\* request before it completed, whether that one succeeded or ended in an HTTP error
C21_PolitenessInterval == lastHttp.gap

\* C22: an item is processed while its page is the last one fetched in its query, and the
\* processed items follow one another in the order of (query in the plan, page, place on the page)
C22_StrictSequencing ==
  (last.item # 0)
    => LET a == last.atPrev
           b == last.at
       IN  /\ last.pages = b[2]
           /\ \/ a[1] < b[1]
              \/ a[1] = b[1] /\ a[2] < b[2]
              \/ a[1] = b[1] /\ a[2] = b[2] /\ a[3] < b[3]

\* an item of a later page of the same query is processed after an item of an earlier page
C22_Witness ==
  /\ last.item # 0
  /\ last.atPrev[1] = last.at[1]
  /\ last.atPrev[2] >= 1 /\ last.atPrev[2] < last.at[2]

\* C23: a value is emptyish exactly when its trimmed, lower-cased text is empty or is an entry
\* of the command's placeholder vocabulary; "-", " ", "n/a" and "TBC" are emptyish, "N/A fee"
\* is not, nor is any other text that only contains a placeholder
C23_EmptyishPredicate ==
  (pure.fn = "emptyish" /\ pure.done)
    => LET v == Lower(Strip(pure.val))
           holds(vocabulary, e) ==
             \E i \in 1..Len(v) : \E j \in i..Len(v) : SubSeq(v, i, j) = e /\ v # e /\ v \notin vocabulary
       IN  /\ pure.appr <=> (v = EmptyStr \/ v \in EmptyishVocabulary)
           /\ pure.course <=> (v = EmptyStr \/ v \in CourseVocabulary)
           /\ pure.val \in {<<"-">>, <<" ">>, <<"n", "/", "a">>, <<"T", "B", "C">>}
                => pure.appr /\ pure.course
           /\ pure.val = <<"N", "/", "A", " ", "f", "e", "e">> => ~pure.appr /\ ~pure.course
           /\ (\E e \in EmptyishVocabulary : holds(EmptyishVocabulary, e)) => ~pure.appr
           /\ (\E e \in CourseVocabulary : holds(CourseVocabulary, e)) => ~pure.course

\* "N/A fee" was tested and found not emptyish
C23_Witness ==
  /\ pure.fn = "emptyish" /\ pure.done
  /\ pure.val = <<"N", "/", "A", " ", "f", "e", "e">>
  /\ ~pure.appr /\ ~pure.course

\* C24: when the first line is the label alone and the line after it starts with a field label,
\* the lookup returns the empty string and not that label line
C24_LabelGuard ==
  (/\ pure.fn = "label" /\ pure.done
   /\ Len(pure.lines) >= 2
   /\ pure.lines[1] = pure.label
   /\ \E known \in {WageLabel, CourseLabel} : StartsWith(pure.lines[2], known))
    => pure.value = EmptyStr

\* C25: the status of a processed item and what it adds to the created and updated counters are
\* those of the same processing with the image hook switched off, whatever the hook returns
C25_StatusIndependentOfEnrichment ==
  (last.item # 0)
    => /\ last.status = last.lone.status
       /\ last.counts.created = last.lone.counts.created
       /\ last.counts.updated = last.lone.counts.updated

\* C26: after an upsert the row's last_scrape_message lists the changed fields when the status
\* is 'updated' and is empty when it is 'created' or 'skipped'
C26_ChangeMessage ==
  (last.item # 0 /\ last.upsert \in {"created", "updated", "skipped"} /\ last.after # << >>)
    => last.after[1].last_scrape_message = (IF last.upsert = "updated" THEN last.changed ELSE << >>)

\* C27: collecting the section after a heading leaves the document as it was, and collecting
\* it a second time returns the same nodes
C27_SectionCollectionPure ==
  (pure.fn = "section" /\ pure.done)
    => /\ pure.rest = pure.sibs
       /\ pure.second = pure.first

\* C28: the card of a link is the nearest qualifying node among the link and its ancestors less
\* than 15 steps up; when there is none the search returns no card and the page's items hold
\* no item from that link
C28_BoundedClimb ==
  (pure.fn = "card" /\ pure.done)
    => \A a \in DOMAIN pure.found :
         LET steps(n) == Cardinality(AncestorsOf(pure.doc, a) \ AncestorsOf(pure.doc, n))
             examined == {n \in AncestorsOf(pure.doc, a) \cup {a} : steps(n) < 15}
             qualifying == {n \in examined :
                              /\ IdsInNode(pure.doc, n) = {Anchors[pure.doc.kind[a]]}
                              /\ LooksLikeCard(pure.v, pure.doc, n)}
         IN  IF qualifying = {}
             THEN /\ pure.found[a] = 0
                  /\ \A i \in 1..Len(pure.items) : pure.items[i].link # a
             ELSE /\ pure.found[a] \in qualifying
                  /\ \A n \in qualifying : steps(pure.found[a]) <= steps(n)

\* the only div above the link lies 15 steps up: the apprenticeship search gives up below it
C28_Witness ==
  /\ pure.fn = "card" /\ pure.done
  /\ pure.v = "apprenticeship" /\ pure.doc = DeepDoc
  /\ \A a \in DOMAIN pure.found : pure.found[a] = 0
  /\ pure.items = << >>

\* C29: every processed item adds one to exactly one of the four counters, so at the end of a
\* run created + updated + skipped + error is the number of items processed
C29_CountersPartition ==
  /\ (last.item # 0)
       => last.counts.created + last.counts.updated + last.counts.skipped + last.counts.error = 1
  /\ (pc = "done")
       => counts.created + counts.updated + counts.skipped + counts.error = Cardinality(accepted)

\* C30: in the apprenticeship and job runs the audit rows of one reference all belong to one
\* processed item, and a row created in the run carries the category and subcategory of the
\* first query of the plan whose listing pages hold the reference
C30_RunWideDeduplication ==
  (vertical # "fetch")
    => /\ \A i, j \in 1..Len(log) : RefOf(log[i].key) = RefOf(log[j].key) => log[i].item = log[j].item
       /\ (last.item # 0 /\ last.upsert = "created")
            => LET RECURSIVE Reach(_, _)
                   Reach(url, seen) == IF url = NoUrl \/ url \in seen THEN seen
                                       ELSE Reach(Site.pages[url].next, seen \cup {url})
                   lists(n) == \E p \in Reach(Plan[n].start, {}) :
                                 \E i \in 1..Len(Site.pages[p].items) :
                                   Site.pages[p].items[i].ref = RefOf(last.key)
                   first == CHOOSE n \in 1..Len(Plan) : lists(n) /\ \A m \in 1..(n - 1) : ~lists(m)
               IN  /\ last.at[1] = first
                   /\ last.upserted[1].category = Plan[first].category
                   /\ last.upserted[1].subcategory = Plan[first].subcategory

\* a run over two queries that both list r1 has ended, having passed over the second listing
C30_Witness ==
  /\ vertical # "fetch" /\ site = "two-queries" /\ opts.max_rows = 0
  /\ pc = "done"
  /\ yielded > Cardinality(accepted)
  /\ \E i \in 1..Len(log) : log[i].status = "created"

====
